---- MODULE Spec2Model ----
(***************************************************************************)
(* Model of app.py, the Netflix content analytics dashboard.               *)
(*                                                                         *)
(* The script is re-executed from top to bottom on every widget change.    *)
(* load_data() is memoised (st.cache_data), so the normalised frame is     *)
(* computed once; every run binds df to it, filters a copy and derives     *)
(* the KPIs, the chart series and the insight text.                        *)
(*                                                                         *)
(* Text is a sequence of one-character strings, so that split, strip and   *)
(* str.contains are computed character by character.                       *)
(***************************************************************************)
EXTENDS Integers, Sequences, FiniteSets

VARIABLES cached, df, sel, view

vars == <<cached, df, sel, view>>

----------------------------------------------------------------------------
(* Bounds of the model. *)

\* Largest number of rows taken from GeneralFile.
MaxRows == 3

\* Number of rows of the longest WideFile.
WideRows == 11

----------------------------------------------------------------------------
(* Literals of the source. *)

All == <<"A", "l", "l">>
Movie == <<"M", "o", "v", "i", "e">>
TVShow == <<"T", "V", " ", "S", "h", "o", "w">>
Nan == <<"n", "a", "n">>
Unknown == <<"U", "n", "k", "n", "o", "w", "n">>
Unrated == <<"U", "n", "r", "a", "t", "e", "d">>
NA == <<"N", "/", "A">>

\* head(10) of the two top lists.
TopN == 10

\* Slider bounds when no row has a year.
FallbackMinYear == 2000
FallbackMaxYear == 2025

\* Fill value of the year column in the year mask.
YearFill == 0

\* A missing cell of a text column (pandas NaN); no text equals it.
NaN == <<"NaN">>

\* A missing year (NaN of the float column "year", NaT of release_date).
NaNYear == -1

\* A release_date cell whose text is not a date.
BadDate == -2

\* The outcome of indexing an empty index.
IndexError == <<"IndexError">>

----------------------------------------------------------------------------
(* Text operations. *)

Min(a, b) == IF a <= b THEN a ELSE b

\* Position of the first comma of s, 0 when there is none.
FirstComma(s) ==
    IF \E i \in 1..Len(s) : s[i] = ","
    THEN CHOOSE i \in 1..Len(s) : s[i] = "," /\ \A j \in 1..(i - 1) : s[j] # ","
    ELSE 0

\* str.split(","): the parts between commas, at least one, empty parts kept.
RECURSIVE Split(_)
Split(s) ==
    LET k == FirstComma(s)
    IN  IF k = 0 THEN <<s>>
        ELSE <<SubSeq(s, 1, k - 1)>> \o Split(SubSeq(s, k + 1, Len(s)))

\* str.strip(): leading and trailing blanks removed.
Strip(s) ==
    IF \A i \in 1..Len(s) : s[i] = " " THEN <<>>
    ELSE LET lo == CHOOSE i \in 1..Len(s) :
                       s[i] # " " /\ \A j \in 1..(i - 1) : s[j] = " "
             hi == CHOOSE i \in 1..Len(s) :
                       s[i] # " " /\ \A j \in (i + 1)..Len(s) : s[j] = " "
         IN  SubSeq(s, lo, hi)

\* One character of a pattern against one character of the text: str.contains
\* takes its pattern as a regular expression, where "." stands for any
\* character; letters, digits, blanks and commas stand for themselves.
PatternCharMatches(p, c) == p = "." \/ p = c

\* Series.str.contains(pat, na=False) on one cell: re.search(pat, cell).
StrContains(cell, pat) ==
    IF cell = NaN THEN FALSE
    ELSE \E i \in 0..(Len(cell) - Len(pat)) :
            \A j \in 1..Len(pat) : PatternCharMatches(pat[j], cell[i + j])

----------------------------------------------------------------------------
(* The CSV files the model reads.  A cell is text, or NaN when the file    *)
(* leaves it empty; release_date is abstracted to the year of the date it  *)
(* spells, BadDate when it spells none, NaNYear when it is empty.          *)

RawRow(id, cat, typ, ctry, rat, date) ==
    [show_id |-> id, category |-> cat, type |-> typ, country |-> ctry,
     rating |-> rat, release_date |-> date]

\* Rows with the shapes the columns take: one and several countries and
\* genres, padded text, empty cells, an unparseable date, a
\* country name holding a "." and another that differs from it in that
\* place only.
GeneralFile ==
    << RawRow(<<"s", "1">>, Movie, <<"d">>, <<"U", "S">>, <<"P", "G">>, 2020),
       RawRow(<<"s", "2">>, TVShow, <<"d", ",", " ", "c">>,
              <<"I", "N", ",", " ", "U", "S">>, <<"R">>, 2020),
       RawRow(<<"s", "3">>, Movie, <<"c", " ">>, <<"I", "N">>, NaN, 2019),
       RawRow(<<"s", "4">>, NaN, NaN, NaN, <<"R">>, BadDate),
       RawRow(NaN, <<" ", "M", "o", "v", "i", "e">>, <<"c", ",", "d">>,
              <<"U", ".", "S">>, <<"P", "G">>, 2021),
       RawRow(<<"s", "6">>, TVShow, <<"d">>, <<"U", "K", "S">>, <<"R">>, 2021) >>

Letter == <<"a", "b", "c", "e", "f", "g", "h", "i", "j", "k", "l", "m", "o">>

\* Row i of a file with many distinct countries and categories: its own
\* one-letter country (the first row names the second row's country too),
\* one of six one-letter categories, one of two years.
WideRow(i) ==
    RawRow(<<"w", Letter[i]>>, <<Letter[((i - 1) % 6) + 1]>>, <<"d">>,
           IF i = 1 THEN <<Letter[1], ",", " ", Letter[2]>> ELSE <<Letter[i]>>,
           <<"P", "G">>, 2019 + (i % 2))

WideFile(n) == [i \in 1..n |-> WideRow(i)]

\* The rows of file at the positions of keep, in file order.
RECURSIVE RowsAt(_, _)
RowsAt(file, keep) ==
    IF keep = {} THEN <<>>
    ELSE LET k == CHOOSE x \in keep : \A y \in keep : x <= y
         IN  <<file[k]>> \o RowsAt(file, keep \ {k})

RawFiles ==
    { RowsAt(GeneralFile, keep) :
        keep \in { k \in SUBSET (1..Len(GeneralFile)) : Cardinality(k) <= MaxRows } }
    \cup { WideFile(n) : n \in 1..WideRows }

----------------------------------------------------------------------------
(* load_data *)

\* pd.to_datetime(errors="coerce") on one cell: text that is no date gives NaT.
ToDatetime(c) == IF c = BadDate THEN NaNYear ELSE c

\* .dt.year on one cell: the year of the date, NaN for NaT.
DtYear(d) == d

\* Series.fillna(v) on one text cell.
FillNa(c, v) == IF c = NaN THEN v ELSE c

\* Series.fillna(v) on one cell of the year column.
FillNaYear(y, v) == IF y = NaNYear THEN v ELSE y

\* astype(str) on one cell: a missing cell becomes the text "nan".
AsStr(c) == IF c = NaN THEN Nan ELSE c

\* One row as load_data returns it; idx is the row's index label.
LoadRow(raw, i) ==
    [idx |-> i,
     show_id |-> raw.show_id,
     category |-> Strip(AsStr(raw.category)),
     type |-> Strip(AsStr(raw.type)),
     country |-> FillNa(raw.country, Unknown),
     rating |-> FillNa(raw.rating, Unrated),
     release_date |-> ToDatetime(raw.release_date),
     year |-> DtYear(ToDatetime(raw.release_date))]

load_data(raw) == [i \in 1..Len(raw) |-> LoadRow(raw[i], i)]

----------------------------------------------------------------------------
(* Series helpers. *)

\* The values of a column, each once, in order of first appearance.
RECURSIVE Unique(_)
Unique(col) ==
    IF col = <<>> THEN <<>>
    ELSE LET rest == Unique(SubSeq(col, 1, Len(col) - 1))
             last == col[Len(col)]
         IN  IF \E i \in 1..Len(rest) : rest[i] = last THEN rest
             ELSE Append(rest, last)

\* The set of a sequence's elements.
Range(s) == { s[i] : i \in 1..Len(s) }

\* Number of cells of col equal to v.
Occurrences(col, v) == Cardinality({ i \in 1..Len(col) : col[i] = v })

\* Series.explode() on a column of lists: the lists' items in row order.
RECURSIVE Explode(_)
Explode(col) ==
    IF col = <<>> THEN <<>> ELSE Head(col) \o Explode(Tail(col))

\* The cells trimmed but not split.
ExplodedParts_nosplit(col) == [i \in 1..Len(col) |-> Strip(col[i])]

\* s.str.split(",").explode().str.strip(): every comma-separated part of
\* every cell, trimmed.
ExplodedParts(col) ==
    LET parts == Explode([i \in 1..Len(col) |-> Split(col[i])])
    IN  [i \in 1..Len(parts) |-> Strip(parts[i])]

\* s without its element at position k.
RemoveAt(s, k) == SubSeq(s, 1, k - 1) \o SubSeq(s, k + 1, Len(s))

\* sort_values(ascending=False) of a count series: largest count first,
\* equal counts in the order they had.
RECURSIVE SortByCountDesc(_)
SortByCountDesc(s) ==
    IF s = <<>> THEN <<>>
    ELSE LET k == CHOOSE i \in 1..Len(s) :
                      /\ \A j \in 1..Len(s) : s[j].count <= s[i].count
                      /\ \A j \in 1..(i - 1) : s[j].count < s[i].count
         IN  <<s[k]>> \o SortByCountDesc(RemoveAt(s, k))

\* The counts in order of first appearance, not sorted.
ValueCounts_unsorted(col) ==
    LET present == SelectSeq(col, LAMBDA v : v # NaN)
        keys == Unique(present)
    IN  [i \in 1..Len(keys) |->
            [name |-> keys[i], count |-> Occurrences(present, keys[i])]]

\* Series.value_counts(): one entry per distinct non-missing value with the
\* number of its occurrences, sorted by count, largest first.
ValueCounts(col) ==
    LET present == SelectSeq(col, LAMBDA v : v # NaN)
        keys == Unique(present)
    IN  SortByCountDesc([i \in 1..Len(keys) |->
            [name |-> keys[i], count |-> Occurrences(present, keys[i])]])

\* Series.head(n).
HeadN(s, n) == SubSeq(s, 1, Min(n, Len(s)))

\* The column named by field f of a frame.
Column(frame, f) == [i \in 1..Len(frame) |-> frame[i][f]]

\* 100 * num / den in tenths of a percent, rounded up.
RoundedTenths_ceil(num, den) ==
    IF (1000 * num) % den = 0 THEN (1000 * num) \div den
    ELSE ((1000 * num) \div den) + 1

\* round(1) of 100 * num / den, in tenths of a percent: to the nearest
\* tenth, a half to the even tenth.
RoundedTenths(num, den) ==
    LET q == (1000 * num) \div den
        r == (1000 * num) % den
    IN  IF 2 * r > den THEN q + 1
        ELSE IF 2 * r < den THEN q
        ELSE IF q % 2 = 0 THEN q ELSE q + 1

----------------------------------------------------------------------------
(* Sidebar: the values each widget offers for the frame d. *)

YearsOf(d) == { d[i].year : i \in 1..Len(d) } \ {NaNYear}

min_year(d) ==
    IF YearsOf(d) # {}
    THEN CHOOSE y \in YearsOf(d) : \A z \in YearsOf(d) : y <= z
    ELSE FallbackMinYear

max_year(d) ==
    IF YearsOf(d) # {}
    THEN CHOOSE y \in YearsOf(d) : \A z \in YearsOf(d) : z <= y
    ELSE FallbackMaxYear

\* The pairs a range slider over min_year..max_year returns after one of
\* its two handles is moved from the pair cur.
YearRanges(d, cur) ==
    { yr \in ({cur[1]} \X (min_year(d)..max_year(d)))
                \cup ((min_year(d)..max_year(d)) \X {cur[2]}) : yr[1] <= yr[2] }

category_options(d) == {All} \cup Range(Column(d, "category"))

rating_options(d) == {All} \cup Range(Column(d, "rating"))

country_options(d) == {All} \cup Range(Column(d, "country"))

\* The single genres of the type column, the text "nan" dropped.
genres(d) == {All} \cup (Range(ExplodedParts(Column(d, "type"))) \ {Nan})

\* The widgets' values on the first run.
DefaultSelection(d) ==
    [year_range |-> <<min_year(d), max_year(d)>>,
     category_choice |-> All,
     rating_choice |-> All,
     country_choice |-> All,
     genre_choice |-> All]

----------------------------------------------------------------------------
(* Apply Filters *)

\* The filters narrowing what the previous run left.
StartFrame_prev(d, prev) == prev

\* The frame the filters start from: a copy of df, whatever the previous
\* run left in filtered.
StartFrame(d, prev) == d

\* The mask with the upper end used for both comparisons.
InYearRange_hi(y, yr) ==
    FillNaYear(y, YearFill) >= yr[2] /\ FillNaYear(y, YearFill) <= yr[2]

\* The mask with missing years filled with the lower end.
InYearRange_fillmin(y, yr) ==
    FillNaYear(y, yr[1]) >= yr[1] /\ FillNaYear(y, yr[1]) <= yr[2]

\* The year mask of one row.
InYearRange(y, yr) ==
    FillNaYear(y, YearFill) >= yr[1] /\ FillNaYear(y, YearFill) <= yr[2]

ApplyFilters(frame, s) ==
    LET f1 == SelectSeq(frame, LAMBDA r : InYearRange(r.year, s.year_range))
        f2 == IF s.category_choice # All
              THEN SelectSeq(f1, LAMBDA r : r.category = s.category_choice)
              ELSE f1
        f3 == IF s.rating_choice # All
              THEN SelectSeq(f2, LAMBDA r : r.rating = s.rating_choice)
              ELSE f2
        f4 == IF s.country_choice # All
              THEN SelectSeq(f3, LAMBDA r : StrContains(r.country, s.country_choice))
              ELSE f3
        f5 == IF s.genre_choice # All
              THEN SelectSeq(f4, LAMBDA r : StrContains(r.type, s.genre_choice))
              ELSE f4
    IN  f5

\* The filters assigned to df itself.
FrameAfterRun_filtered(d, f) == f

\* The frame bound to df when the run ends: no statement assigns to df or
\* changes it in place.
FrameAfterRun(d, f) == d

----------------------------------------------------------------------------
(* KPIs, chart series and insight text of a filtered frame. *)

\* value_counts(normalize=True).get(cat, 0) * 100 as "{:.1f}" prints it,
\* in tenths.
SharePct(filtered, cat) ==
    LET n == Occurrences(Column(filtered, "category"), cat)
    IN  IF n = 0 THEN 0 ELSE RoundedTenths(n, Len(filtered))

\* (value_counts(normalize=True) * 100).round(1), values in tenths.
CategoryPct(filtered) ==
    LET vc == ValueCounts(Column(filtered, "category"))
    IN  [i \in 1..Len(vc) |->
            [name |-> vc[i].name, pct |-> RoundedTenths(vc[i].count, Len(filtered))]]

\* The elements of a set of integers in ascending order.
RECURSIVE Ascending(_)
Ascending(S) ==
    IF S = {} THEN <<>>
    ELSE LET m == CHOOSE x \in S : \A y \in S : x <= y
         IN  <<m>> \o Ascending(S \ {m})

\* groupby("year")["show_id"].count().sort_index(): per year present, the
\* number of rows of that year whose show_id is not missing; rows without a
\* year belong to no group.
TitlesByYear(filtered) ==
    LET ys == Ascending(YearsOf(filtered))
    IN  [k \in 1..Len(ys) |->
            [year |-> ys[k],
             count |-> Cardinality({ i \in 1..Len(filtered) :
                          filtered[i].year = ys[k] /\ filtered[i].show_id # NaN })]]

TopCountries(filtered) ==
    HeadN(ValueCounts(ExplodedParts(Column(filtered, "country"))), TopN)

TopGenres(filtered) ==
    HeadN(ValueCounts(ExplodedParts(Column(filtered, "type"))), TopN)

\* series.index[0] and series.index[-1].
IndexFirst(series) == IF series = <<>> THEN IndexError ELSE series[1].name

IndexLast(series) == IF series = <<>> THEN IndexError ELSE series[Len(series)].name

\* The label without the test for an empty series.
TopCountryLabel_unguarded(top) == IndexFirst(top)

\* The insight's two labels.
TopCountryLabel(top) == IF Len(top) # 0 THEN IndexFirst(top) ELSE NA

TopGenreLabel(top) == IF Len(top) # 0 THEN IndexLast(top) ELSE NA

\* Everything one run of the script shows.
Run(d, prev, s) ==
    LET filtered == ApplyFilters(StartFrame(d, prev), s)
        top_countries == TopCountries(filtered)
        top_genres == TopGenres(filtered)
    IN  [filtered |-> filtered,
         n_filtered |-> Len(filtered),
         n_total |-> Len(FrameAfterRun(d, filtered)),
         movie_pct |-> SharePct(filtered, Movie),
         tv_pct |-> SharePct(filtered, TVShow),
         pct |-> CategoryPct(filtered),
         titles_by_year |-> TitlesByYear(filtered),
         top_countries |-> top_countries,
         top_genres |-> top_genres,
         top_country |-> TopCountryLabel(top_countries),
         top_genre |-> TopGenreLabel(top_genres)]

----------------------------------------------------------------------------
(* The session: the first run, then one run per widget change or rerun. *)

Init ==
    \E raw \in RawFiles :
        /\ cached = load_data(raw)
        /\ df = cached
        /\ sel = DefaultSelection(cached)
        /\ view = Run(cached, cached, sel)

\* The script runs again with the widgets at s: df is bound to the memoised
\* frame, filtered is rebuilt, every output is recomputed.
Rerun(s) ==
    /\ sel' = s
    /\ view' = Run(cached, view.filtered, s)
    /\ df' = FrameAfterRun(cached, view'.filtered)
    /\ UNCHANGED cached

ChangeYearRange ==
    \E yr \in YearRanges(df, sel.year_range) :
        /\ yr # sel.year_range
        /\ Rerun([sel EXCEPT !.year_range = yr])

ChangeCategory ==
    \E c \in category_options(df) :
        /\ c # sel.category_choice
        /\ Rerun([sel EXCEPT !.category_choice = c])

ChangeRating ==
    \E c \in rating_options(df) :
        /\ c # sel.rating_choice
        /\ Rerun([sel EXCEPT !.rating_choice = c])

ChangeCountry ==
    \E c \in country_options(df) :
        /\ c # sel.country_choice
        /\ Rerun([sel EXCEPT !.country_choice = c])

ChangeGenre ==
    \E c \in genres(df) :
        /\ c # sel.genre_choice
        /\ Rerun([sel EXCEPT !.genre_choice = c])

\* A rerun with no widget changed.
RerunSame == Rerun(sel)

Next ==
    \/ ChangeYearRange
    \/ ChangeCategory
    \/ ChangeRating
    \/ ChangeCountry
    \/ ChangeGenre
    \/ RerunSame

Spec == Init /\ [][Next]_vars

----------------------------------------------------------------------------
(* Vocabulary of the properties. *)

\* p occurs in s as a run of consecutive characters.
IsSubstring(p, s) ==
    \E i \in 0..(Len(s) - Len(p)) : SubSeq(s, i + 1, i + Len(p)) = p

\* The comma-free stretches of a cell: pairs <<a, b>> of neighbouring
\* separators (a comma, or the position before or after the cell).
Stretches(cell) ==
    LET seps == {0, Len(cell) + 1} \cup { i \in 1..Len(cell) : cell[i] = "," }
    IN  { ab \in seps \X seps :
            /\ ab[1] < ab[2]
            /\ \A c \in seps : ~(ab[1] < c /\ c < ab[2]) }

\* How many comma-separated parts of the column f of the filtered rows are,
\* once trimmed, the name.
ExplodedCount(frame, f, name) ==
    Cardinality({ p \in UNION { {i} \X Stretches(frame[i][f]) : i \in 1..Len(frame) } :
        Strip(SubSeq(frame[p[1]][f], p[2][1] + 1, p[2][2] - 1)) = name })

\* The names that occur as parts of column f.
ExplodedNames(frame, f) ==
    UNION { { Strip(SubSeq(frame[i][f], ab[1] + 1, ab[2] - 1)) :
                ab \in Stretches(frame[i][f]) } : i \in 1..Len(frame) }

RECURSIVE SumCounts(_)
SumCounts(series) ==
    IF series = <<>> THEN 0 ELSE Head(series).count + SumCounts(Tail(series))

RECURSIVE SumPct(_)
SumPct(series) ==
    IF series = <<>> THEN 0 ELSE Head(series).pct + SumPct(Tail(series))

\* The predicates of a selection, as the filter facets are described.
SatisfiesSelection(r, s) ==
    /\ r.year # NaNYear
    /\ s.year_range[1] <= r.year /\ r.year <= s.year_range[2]
    /\ s.category_choice = All \/ r.category = s.category_choice
    /\ s.rating_choice = All \/ r.rating = s.rating_choice
    /\ s.country_choice = All \/ IsSubstring(s.country_choice, r.country)
    /\ s.genre_choice = All \/ IsSubstring(s.genre_choice, r.type)

\* t constrains at least as much as s.
Tightens(s, t) ==
    /\ s.year_range[1] <= t.year_range[1] /\ t.year_range[2] <= s.year_range[2]
    /\ s.category_choice \in {All, t.category_choice}
    /\ s.rating_choice \in {All, t.rating_choice}
    /\ s.country_choice \in {All, t.country_choice}
    /\ s.genre_choice \in {All, t.genre_choice}

SomeRowLacksYear == \E i \in 1..Len(df) : df[i].year = NaNYear

SomeFilteredRowHasSeveralCountries ==
    \E i \in 1..Len(view.filtered) : Cardinality(Stretches(view.filtered[i].country)) > 1

----------------------------------------------------------------------------
(* Properties. *)

\* C1: a row of the dataset is in the filtered frame if and only if every
\* active predicate holds for it: year within the range (both ends
\* included), category and rating equal to the choice, country and type
\* containing the chosen country and genre as a substring.
C1_FilterIsConjunction ==
    \A i \in 1..Len(df) :
        (df[i] \in Range(view.filtered)) <=> SatisfiesSelection(df[i], sel)

\* C2 as stated: the counts of top_countries sum to at least the number of
\* filtered rows, and to exactly that number only when every filtered row
\* names one country.
C2_SumAtLeastCount ==
    /\ SumCounts(view.top_countries) >= view.n_filtered
    /\ SumCounts(view.top_countries) = view.n_filtered
          => ~SomeFilteredRowHasSeveralCountries

\* C2 amended: the same, for filtered frames that name at most ten distinct
\* countries, so that head(10) drops none.
C2_SumAtLeastCountUpToTen ==
    Cardinality(ExplodedNames(view.filtered, "country")) <= TopN
        => /\ SumCounts(view.top_countries) >= view.n_filtered
           /\ SumCounts(view.top_countries) = view.n_filtered
                 => ~SomeFilteredRowHasSeveralCountries

C2_Witness ==
    /\ sel.country_choice # All
    /\ SomeFilteredRowHasSeveralCountries
    /\ Cardinality(ExplodedNames(view.filtered, "country")) <= TopN
    /\ SumCounts(view.top_countries) > view.n_filtered

C4_TopLabelsAreLargest ==
    view.n_filtered > 0
        => /\ view.top_genre = view.top_genres[1].name
           /\ \A g \in ExplodedNames(view.filtered, "type") :
                 ExplodedCount(view.filtered, "type", g)
                     <= ExplodedCount(view.filtered, "type", view.top_genre)
           /\ view.top_country = view.top_countries[1].name
           /\ \A c \in ExplodedNames(view.filtered, "country") :
                 ExplodedCount(view.filtered, "country", c)
                     <= ExplodedCount(view.filtered, "country", view.top_country)

\* C5 as stated: for a non-empty filtered frame the rounded category
\* percentages sum to 100.0 give or take 0.1, however many categories.
C5_PercentagesSumTo100 ==
    view.n_filtered > 0
        => SumPct(view.pct) \in 999..1001

\* C5 amended: the same, for filtered frames with at most three distinct
\* categories.
C5_PercentagesSumTo100UpToThree ==
    (view.n_filtered > 0 /\ Len(view.pct) <= 3)
        => SumPct(view.pct) \in 999..1001

C5_Witness ==
    /\ sel # DefaultSelection(cached)
    /\ Len(view.pct) = 3
    /\ SumPct(view.pct) = 999

\* C6: whatever selections came before, the view is the one a first run
\* with the current selection computes from the dataset.
C6_ViewDependsOnSelectionOnly ==
    view = Run(cached, cached, sel)

C6_Witness ==
    /\ sel.category_choice # All
    /\ sel.country_choice # All
    /\ view.n_filtered > 0
    /\ view.n_filtered < Len(cached)

\* C7: no run changes the dataset: df is the frame load_data returned and
\* the total count is its length.
C7_DatasetUnchanged ==
    /\ df = cached
    /\ view.n_total = Len(cached)

C7_Witness ==
    /\ sel # DefaultSelection(cached)
    /\ view.n_filtered > 0
    /\ view.n_filtered < view.n_total
    /\ df = cached

\* C8: top_countries lists at most ten countries of the filtered rows, each
\* once and with the number of its occurrences among the trimmed
\* comma-separated parts of their country cells, in non-increasing order of
\* count, and no country left out has a larger count than a listed one.
C8_TopCountriesExact ==
    LET tc == view.top_countries
        names == ExplodedNames(view.filtered, "country")
        listed == { tc[i].name : i \in 1..Len(tc) }
    IN  /\ Len(tc) = Min(TopN, Cardinality(names))
        /\ listed \subseteq names
        /\ Cardinality(listed) = Len(tc)
        /\ \A i \in 1..Len(tc) :
              tc[i].count = ExplodedCount(view.filtered, "country", tc[i].name)
        /\ \A i \in 1..Len(tc) : \A j \in i..Len(tc) : tc[i].count >= tc[j].count
        /\ \A c \in names \ listed : \A i \in 1..Len(tc) :
              ExplodedCount(view.filtered, "country", c) <= tc[i].count

C8_Witness ==
    /\ Len(view.top_countries) = TopN
    /\ Cardinality(ExplodedNames(view.filtered, "country")) > TopN
    /\ SomeFilteredRowHasSeveralCountries
    /\ view.top_countries[1].count = 2

\* C9: a row without a year is never in the filtered frame, no entry of
\* titles_by_year stands for a missing year, and when every row of the
\* dataset has a show_id the counts of titles_by_year sum to the filtered
\* count.
C9_YearlessRowsExcluded ==
    /\ \A i \in 1..Len(view.filtered) : view.filtered[i].year # NaNYear
    /\ \A k \in 1..Len(view.titles_by_year) : view.titles_by_year[k].year # NaNYear
    /\ (\A i \in 1..Len(df) : df[i].show_id # NaN)
          => SumCounts(view.titles_by_year) = view.n_filtered

C9_Witness ==
    /\ sel.year_range # DefaultSelection(cached).year_range
    /\ SomeRowLacksYear
    /\ \A i \in 1..Len(df) : df[i].show_id # NaN
    /\ view.n_filtered > 0
    /\ SumCounts(view.titles_by_year) = view.n_filtered

\* C10: the filtered count never exceeds the total count, and a change that
\* only tightens the selection leaves a filtered frame whose rows were all
\* in the previous one.
C10_FilteringMonotone ==
    /\ [](view.n_filtered <= view.n_total)
    /\ [][Tightens(sel, sel') => Range(view'.filtered) \subseteq Range(view.filtered)]_vars

C10_Witness ==
    /\ Tightens(DefaultSelection(cached), sel)
    /\ sel # DefaultSelection(cached)
    /\ view.n_filtered > 0
    /\ view.n_filtered < view.n_total

====
